---- MODULE Spec2Model ----
(***************************************************************************)
(* A model of package typedecl (src/typedecl.go): the declaration scanner  *)
(* All with its helper structValue, and the diff engine Collection.Diff    *)
(* with its encoder valueFrom / fieldValue, Diff.Zero and Diff.String, and  *)
(* the test helper typedecltest.NoDiff (src/unnamed/part_011).             *)
(*                                                                         *)
(* Go strings are TLA+ strings; source text, type strings and encodings    *)
(* are computed with \o, Len and SubSeq the way the code computes them.    *)
(* The back quote of Go source text is written ~ (see BQ).                 *)
(* A panic of the Go runtime or an explicit panic(...) is the status       *)
(* "panic" of an outcome; a returned error is the status "error".          *)
(***************************************************************************)
EXTENDS Integers, Sequences, FiniteSets, TLC

VARIABLES
    pkg,      \* the package under scan: its definitions and the struct type's fields
    typ,      \* the typ argument of All
    pc,       \* "start", "scanned" (All has returned or panicked), "diffed"
    result,   \* the outcome of All: status, err, collection
    actual,   \* the actual argument of Collection.Diff
    diff,     \* the outcome of Collection.Diff: status, Missing, Extra
    rendering,  \* what Diff.String() returned
    failureMsg, \* the failureMsg arguments of NoDiff
    harness,    \* the calls NoDiff has made on its tHelper, in order
    ret         \* what NoDiff returned: "true", "false", or "panic" when it panicked

vars == <<pkg, typ, pc, result, actual, diff, rendering, failureMsg, harness, ret>>

(***************************************************************************)
(* Bounds of the model.                                                    *)
(***************************************************************************)
MaxSpecs == 2     \* value specs, type specs and parameters per package
MaxActual == 2    \* elements of the slice handed to Diff

(***************************************************************************)
(* Program constants.                                                      *)
(***************************************************************************)
structTagName == "typedecl"
structTagIdentifier == "identifier"

(***************************************************************************)
(* strings.HasSuffix, strings.HasPrefix, strings.Contains.                 *)
(***************************************************************************)
HasSuffix(s, suffix) ==
    /\ Len(suffix) <= Len(s)
    /\ SubSeq(s, Len(s) - Len(suffix) + 1, Len(s)) = suffix

HasPrefix(s, prefix) ==
    /\ Len(prefix) <= Len(s)
    /\ SubSeq(s, 1, Len(prefix)) = prefix

Contains(s, substr) ==
    \E i \in 1..(Len(s) - Len(substr) + 1) : SubSeq(s, i, i + Len(substr) - 1) = substr

(***************************************************************************)
(* The package under scan.  PkgPath is its import path and PkgName its     *)
(* name: types.Type.String() qualifies a named type with the path,         *)
(* reflect.Type.String() with the name.                                    *)
(***************************************************************************)
PkgPath == "g/full"
PkgName == "full"

\* The back quote that delimits a raw string literal or a struct tag.
BQ == "~"

\* go/types: a named type, a slice, an array, or a predeclared type.
Named(name) == [ctor |-> "Named", name |-> name]
SliceOf(name) == [ctor |-> "Slice", name |-> name]
ArrayOf(name) == [ctor |-> "Array", name |-> name]

\* types.Type.String(), as used at src/typedecl.go:106 and :127.
TypeString(t) ==
    CASE t.ctor = "Named" -> PkgPath \o "." \o t.name
      [] t.ctor = "Slice" -> "[]" \o PkgPath \o "." \o t.name
      [] t.ctor = "Array" -> "[2]" \o PkgPath \o "." \o t.name
      [] OTHER -> t.name

\* The kind of the underlying type of the package's named types:
\* type Flag string; type IntFlag int; type FlagStruct struct{...}.
Underlying(name) ==
    CASE name = "Flag" -> "String"
      [] name = "IntFlag" -> "Int"
      [] name = "FlagStruct" -> "Struct"
      [] OTHER -> "Invalid"

(***************************************************************************)
(* go/ast expressions.  A BasicLit carries its source text in Value; a     *)
(* CompositeLit the kind and name of its Type expression and its Elts; a   *)
(* CallExpr (a conversion Flag("u")) the source text of its operand.       *)
(***************************************************************************)
BasicLit(text) ==
    [kind |-> "BasicLit", Value |-> text, TypeKind |-> "", TypeName |-> "", Elts |-> <<>>]

CompositeLit(typeKind, typeName, elts) ==
    [kind |-> "CompositeLit", Value |-> "", TypeKind |-> typeKind, TypeName |-> typeName,
     Elts |-> elts]

CallExpr(text) ==
    [kind |-> "CallExpr", Value |-> text, TypeKind |-> "", TypeName |-> "", Elts |-> <<>>]

\* An element Key: Value of a composite literal, Value a basic literal.
KeyValueExpr(key, text) ==
    [kind |-> "KeyValueExpr", Key |-> key, ValueKind |-> "BasicLit", Value |-> text]

\* An element Key: Value of a composite literal, Value an identifier.
KeyIdentExpr(key, name) ==
    [kind |-> "KeyValueExpr", Key |-> key, ValueKind |-> "Ident", Value |-> name]

\* An element of a composite literal without a key.
Element(text) ==
    [kind |-> "BasicLit", Key |-> "", ValueKind |-> "BasicLit", Value |-> text]

\* A field of the struct type: its Names and its Tag (HasTag FALSE: Tag is nil).
Field(name, hasTag, tag) == [Names |-> <<name>>, HasTag |-> hasTag, Tag |-> tag]

IdentifierTag == structTagName \o ":\"" \o structTagIdentifier \o "\""
JsonTag == "json:\"x\""

(***************************************************************************)
(* An entry e -> t of TypesInfo.Defs.  Object is the kind of t ("nil" when *)
(* t is nil), Scope the scope the identifier is declared in, Decl the kind *)
(* of e.Obj.Decl ("none" when e.Obj is nil), Names and Values those of the *)
(* value spec, which every name of the spec shares.                        *)
(***************************************************************************)
Def(name, object, scope, type, decl, names, values) ==
    [Name |-> name, Object |-> object, Scope |-> scope, Type |-> type, Decl |-> decl,
     Names |-> names, Values |-> values]

ValueSpec(names, object, scope, type, values) ==
    {Def(names[i], object, scope, type, "ValueSpec", names, values) : i \in 1..Len(names)}

(***************************************************************************)
(* go/types scopes.  Universe <- package <- file <- function <- block.     *)
(* Scope.Pos() is token.NoPos for the universe and package scopes.         *)
(* Object.Parent() is nil for an object that no scope holds: go/types      *)
(* inserts no blank identifier _ into a scope, whatever declares it.       *)
(***************************************************************************)
NoPos == 0
Nil == "nil"

ScopeParent(scope) ==
    CASE scope = "block" -> "func"
      [] scope = "func" -> "file"
      [] scope = "file" -> "package"
      [] scope = "package" -> "universe"
      [] OTHER -> Nil

ScopePos(scope) == IF scope \in {"universe", "package"} THEN NoPos ELSE 1

Parent(t) == IF t.Name = "_" THEN Nil ELSE t.Scope

\* src/typedecl.go:83
notTopLevelDeclaration(t) ==
    /\ Parent(t) # Nil
    /\ ScopeParent(Parent(t)) # Nil
    /\ ScopePos(ScopeParent(Parent(t))) # NoPos

(***************************************************************************)
(* Collection, Match and the outcomes of All and structValue.              *)
(***************************************************************************)
Match(name, value) == [Name |-> name, Value |-> value]

Collection(type, fieldName, matches) ==
    [Type |-> type, FieldName |-> fieldName, Matches |-> matches]

EmptyCollection == Collection("", "", <<>>)

Returned(collection) == [status |-> "ok", err |-> "", collection |-> collection]
Failed(err) == [status |-> "error", err |-> err, collection |-> EmptyCollection]
Panicked(msg) == [status |-> "panic", err |-> msg, collection |-> EmptyCollection]

ErrLoad == "failed to load package"
ErrNotBasicLiteral == "struct identifier value not a basic literal"
ErrNoStructTag == "no struct tag with " \o structTagName \o ":\"" \o structTagIdentifier \o "\" found"

Value3(status, err, fieldName, val) ==
    [status |-> status, err |-> err, fieldName |-> fieldName, val |-> val]

(***************************************************************************)
(* structValue (src/typedecl.go:142-171).  fields is Fields.List of the    *)
(* struct type that the literal's Type identifier resolves to.  The loop   *)
(* body for the field at index i (Go's i is i - 1):                        *)
(*   f.Tag.Value dereferences f.Tag, nil for a field without a tag;        *)
(*   exp.Elts[i] is the literal's element at the field's own index.        *)
(***************************************************************************)
RECURSIVE structFields(_, _, _)
structFields(exp, fields, i) ==
    IF i > Len(fields)
    THEN Value3("error", ErrNoStructTag, "", "")       \* val == "" after the loop
    ELSE LET f == fields[i] IN
         IF ~f.HasTag
         THEN Value3("panic", "nil pointer dereference", "", "")
         ELSE IF Contains(BQ \o f.Tag \o BQ,
                          BQ \o structTagName \o ":\"" \o structTagIdentifier \o "\"" \o BQ)
         THEN IF Len(f.Names) > 1
              THEN Value3("panic", "struct identifier field has more than one Name", "", "")
              ELSE IF i > Len(exp.Elts)
              THEN Value3("panic", "index out of range", "", "")
              ELSE IF exp.Elts[i].kind # "KeyValueExpr"
              THEN Value3("panic", "interface conversion", "", "")
              ELSE IF exp.Elts[i].ValueKind # "BasicLit"
              THEN Value3("error", ErrNotBasicLiteral, "", "")
              ELSE IF exp.Elts[i].Value = ""
              THEN Value3("error", ErrNoStructTag, "", "")
              ELSE Value3("ok", "", f.Names[1], exp.Elts[i].Value)   \* break
         ELSE structFields(exp, fields, i + 1)

\* structValue taking the last field that carries the tag instead of the first.
structValueLastTag(exp, fields) ==
    LET tagged == {i \in 1..Len(fields) :
                       fields[i].HasTag /\ Contains(BQ \o fields[i].Tag \o BQ,
                                                    BQ \o IdentifierTag \o BQ)}
    IN IF exp.TypeKind # "Ident"
       THEN Value3("panic", "interface conversion", "", "")
       ELSE IF tagged = {}
       THEN structFields(exp, fields, 1)
       ELSE structFields(exp, fields, CHOOSE i \in tagged : \A j \in tagged : j <= i)

structValue(exp, fields) ==
    IF exp.TypeKind # "Ident"
    THEN Value3("panic", "interface conversion", "", "")  \* exp.Type.(*ast.Ident)
    ELSE structFields(exp, fields, 1)

(***************************************************************************)
(* The loop over decl.Values (src/typedecl.go:110-125): every value of the *)
(* spec overwrites val, whichever name of the spec is being visited.       *)
(***************************************************************************)
RECURSIVE declValues(_, _, _, _, _)
declValues(values, fields, i, fieldName, val) ==
    IF i > Len(values)
    THEN Value3("ok", "", fieldName, val)
    ELSE LET v == values[i] IN
         CASE v.kind = "BasicLit" -> declValues(values, fields, i + 1, fieldName, v.Value)
           [] v.kind = "CompositeLit" ->
                LET r == structValue(v, fields) IN
                IF r.status # "ok" THEN r
                ELSE declValues(values, fields, i + 1, r.fieldName, r.val)
           [] OTHER -> Value3("panic", "unknown type, please file a bug report", "", "")

\* The filters of src/typedecl.go:73-108: the definition is kept.
Kept(e, t) ==
    /\ e.Object # "nil"
    /\ ~notTopLevelDeclaration(e)
    /\ e.Type.ctor # "Slice"
    /\ e.Decl # "none"
    /\ e.Decl = "ValueSpec"
    /\ HasSuffix(TypeString(e.Type), t)

(***************************************************************************)
(* The loop of All over TypesInfo.Defs (src/typedecl.go:72-133), visiting  *)
(* the definitions in the order the map iteration yields them.             *)
(***************************************************************************)
RECURSIVE defsLoop(_, _, _, _, _)
defsLoop(order, fields, t, i, collection) ==
    IF i > Len(order)
    THEN Returned(collection)
    ELSE LET e == order[i] IN
         IF ~Kept(e, t)
         THEN defsLoop(order, fields, t, i + 1, collection)
         ELSE LET r == declValues(e.Values, fields, 1, "", "") IN
              CASE r.status = "error" -> Failed(r.err)
                [] r.status = "panic" -> Panicked(r.err)
                [] OTHER ->
                     defsLoop(order, fields, t, i + 1,
                              Collection(TypeString(e.Type), r.fieldName,
                                         Append(collection.Matches, Match(e.Name, r.val))))

(***************************************************************************)
(* Go's < on strings: bytewise, lexicographic.  Alphabet lists the bytes   *)
(* that identifiers use, in ascending byte order.                          *)
(***************************************************************************)
Alphabet == "0123456789ABCDEFGHIJKLMNOPQRSTUVWXYZ_abcdefghijklmnopqrstuvwxyz"

ByteValue ==
    [c \in {SubSeq(Alphabet, k, k) : k \in 1..Len(Alphabet)} |->
        CHOOSE k \in 1..Len(Alphabet) : SubSeq(Alphabet, k, k) = c]

Byte(s, i) == ByteValue[SubSeq(s, i, i)]

RECURSIVE lessFrom(_, _, _)
lessFrom(a, b, i) ==
    IF i > Len(b) THEN FALSE
    ELSE IF i > Len(a) THEN TRUE
    ELSE IF Byte(a, i) # Byte(b, i) THEN Byte(a, i) < Byte(b, i)
    ELSE lessFrom(a, b, i + 1)

StringLess(a, b) == lessFrom(a, b, 1)

\* The arrangements of a sequence: every sequence with the same elements.
Arrangements(seq) ==
    LET n == Len(seq)
        perms == {f \in [1..n -> 1..n] : \A i, j \in 1..n : i # j => f[i] # f[j]}
    IN {[i \in 1..n |-> seq[f[i]]] : f \in perms}

(***************************************************************************)
(* sort.Slice by Name (src/typedecl.go:137).  The sort is not stable: the  *)
(* result is an arrangement in which no element is followed by one of a    *)
(* smaller Name; elements of equal Name may come out in any order.         *)
(***************************************************************************)
sortSliceSkipped(matches) == {matches}

sortSlice(matches) ==
    {m \in Arrangements(matches) :
        \A i, j \in 1..Len(m) : i < j => ~StringLess(m[j].Name, m[i].Name)}

(***************************************************************************)
(* All (src/typedecl.go:63-140) on package p with argument t, the loop     *)
(* visiting the definitions in the given order: the set of its outcomes.   *)
(***************************************************************************)
AllOutcomes(p, t, order) ==
    IF p.LoadErr
    THEN {Failed(ErrLoad)}
    ELSE LET r == defsLoop(order, p.Fields, t, 1, EmptyCollection) IN
         IF r.status # "ok"
         THEN {r}
         ELSE {Returned(Collection(r.collection.Type, r.collection.FieldName, m)) :
                   m \in sortSlice(r.collection.Matches)}

\* The orders in which ranging over the map TypesInfo.Defs can visit it.
VisitOrders(defs) ==
    LET n == Cardinality(defs) IN
    {f \in [1..n -> defs] : \A i, j \in 1..n : i # j => f[i] # f[j]}

(***************************************************************************)
(* The packages the model scans.  Declarations lists what a package of the *)
(* model may declare; a package declares at most MaxSpecs of them.  The    *)
(* package always declares                                                 *)
(*     type Flag string;  type IntFlag int;  const dflt = "d"              *)
(*     type FlagStruct struct { Name string <tag>; Desc string <tag> }     *)
(* and StructShapes lists the tags that FlagStruct's two fields can carry. *)
(***************************************************************************)
Quoted(s) == "\"" \o s \o "\""

Declarations ==
    <<  \* const A Flag = "a"
        ValueSpec(<<"A">>, "Const", "package", Named("Flag"), <<BasicLit(Quoted("a"))>>),
        \* const C Flag = `a` (a raw string literal)
        ValueSpec(<<"C">>, "Const", "package", Named("Flag"), <<BasicLit(BQ \o "a" \o BQ)>>),
        \* const D Flag = "a" (the value of A again)
        ValueSpec(<<"D">>, "Const", "package", Named("Flag"), <<BasicLit(Quoted("a"))>>),
        \* var M, N Flag = "m", "n"
        ValueSpec(<<"M", "N">>, "Var", "package", Named("Flag"),
                  <<BasicLit(Quoted("m")), BasicLit(Quoted("n"))>>),
        \* var Z Flag
        ValueSpec(<<"Z">>, "Var", "package", Named("Flag"), <<>>),
        \* var U = Flag("u")
        ValueSpec(<<"U">>, "Var", "package", Named("Flag"), <<CallExpr(Quoted("u"))>>),
        \* var V = newFlagStruct()
        ValueSpec(<<"V">>, "Var", "package", Named("FlagStruct"), <<CallExpr("")>>),
        \* const Hex IntFlag = 0x1
        ValueSpec(<<"Hex">>, "Const", "package", Named("IntFlag"), <<BasicLit("0x1")>>),
        \* var AllFlags = []Flag{"a", "b"}
        ValueSpec(<<"AllFlags">>, "Var", "package", SliceOf("Flag"),
                  <<CompositeLit("ArrayType", "[]Flag", <<Element(Quoted("a")), Element(Quoted("b"))>>)>>),
        \* var Pair = [2]Flag{"a", "b"}
        ValueSpec(<<"Pair">>, "Var", "package", ArrayOf("Flag"),
                  <<CompositeLit("ArrayType", "[2]Flag", <<Element(Quoted("a")), Element(Quoted("b"))>>)>>),
        \* func f() { var L Flag = "l" }
        ValueSpec(<<"L">>, "Var", "func", Named("Flag"), <<BasicLit(Quoted("l"))>>),
        \* func g() { if ok { var K Flag = "k" } }
        ValueSpec(<<"K">>, "Var", "block", Named("Flag"), <<BasicLit(Quoted("k"))>>),
        \* func h() { var _ Flag = "x" }
        ValueSpec(<<"_">>, "Var", "func", Named("Flag"), <<BasicLit(Quoted("x"))>>),
        \* the identifier Flag of type Flag string
        {Def("Flag", "TypeName", "package", Named("Flag"), "TypeSpec", <<>>, <<>>)},
        \* the parameter of func k(p Flag)
        {Def("p", "Var", "func", Named("Flag"), "Field", <<>>, <<>>)},
        \* the identifier of the package clause, which denotes no object
        {Def(PkgName, "nil", "package", Named(""), "none", <<>>, <<>>)},
        \* var P = FlagStruct{Name: "p", Desc: dflt}
        ValueSpec(<<"P">>, "Var", "package", Named("FlagStruct"),
                  <<CompositeLit("Ident", "FlagStruct",
                                 <<KeyValueExpr("Name", Quoted("p")), KeyIdentExpr("Desc", "dflt")>>)>>),
        \* var Q = FlagStruct{Desc: "dq", Name: "q"}
        ValueSpec(<<"Q">>, "Var", "package", Named("FlagStruct"),
                  <<CompositeLit("Ident", "FlagStruct",
                                 <<KeyValueExpr("Desc", Quoted("dq")), KeyValueExpr("Name", Quoted("q"))>>)>>),
        \* var R = FlagStruct{Desc: "dr"}
        ValueSpec(<<"R">>, "Var", "package", Named("FlagStruct"),
                  <<CompositeLit("Ident", "FlagStruct", <<KeyValueExpr("Desc", Quoted("dr"))>>)>>)
    >>

StructShapes ==
    {   \* Name string `typedecl:"identifier"`; Desc string
        <<Field("Name", TRUE, IdentifierTag), Field("Desc", FALSE, "")>>,
        \* Name string `typedecl:"identifier"`; Desc string `typedecl:"identifier"`
        <<Field("Name", TRUE, IdentifierTag), Field("Desc", TRUE, IdentifierTag)>>,
        \* Name string; Desc string
        <<Field("Name", FALSE, ""), Field("Desc", FALSE, "")>>,
        \* Name string `json:"x"`; Desc string `json:"x"`
        <<Field("Name", TRUE, JsonTag), Field("Desc", TRUE, JsonTag)>>,
        \* Name string; Desc string `typedecl:"identifier"`
        <<Field("Name", FALSE, ""), Field("Desc", TRUE, IdentifierTag)>>,
        \* Name string `json:"x"`; Desc string `typedecl:"identifier"`
        <<Field("Name", TRUE, JsonTag), Field("Desc", TRUE, IdentifierTag)>> }

DefaultShape == <<Field("Name", TRUE, IdentifierTag), Field("Desc", FALSE, "")>>

Package(defs, fields, loadErr) == [Defs |-> defs, Fields |-> fields, LoadErr |-> loadErr]

DeclaresStruct(defs) == \E d \in defs : d.Decl = "ValueSpec" /\ d.Type = Named("FlagStruct")

Packages ==
    LET chosen == {S \in SUBSET (1..Len(Declarations)) : Cardinality(S) <= MaxSpecs}
        defsOf(S) == UNION {Declarations[i] : i \in S}
    IN {Package(defsOf(S), f, FALSE) :
            S \in chosen,
            f \in StructShapes} \cup {Package({}, DefaultShape, TRUE)}

\* The typ arguments the model passes to All.
TypArgs == {PkgName \o ".Flag", "Flag", PkgName \o ".FlagStruct"}

NotScanned == [status |-> "none", err |-> "", collection |-> EmptyCollection]
NoActual == [IsSlice |-> FALSE, ElemKind |-> "", Items |-> <<>>]
NotDiffed == [status |-> "none", Missing |-> EmptyCollection, Extra |-> <<>>]
NoText == "(none)"
NoCalls == <<>>
NotReturned == "none"

Init ==
    /\ pkg \in {p \in Packages : DeclaresStruct(p.Defs) \/ p.Fields = DefaultShape}
    /\ typ \in TypArgs
    /\ pc = "start"
    /\ result = NotScanned
    /\ actual = NoActual
    /\ diff = NotDiffed
    /\ rendering = NoText
    /\ failureMsg = <<>>
    /\ harness = NoCalls
    /\ ret = NotReturned

(***************************************************************************)
(* Run-time values, as reflect sees them: Kind and Type (the type's        *)
(* String(), qualified by the package name), the payload of a string or an *)
(* int, and the two fields of a struct.                                    *)
(***************************************************************************)
StringValue(name, str) ==
    [Kind |-> "String", Type |-> PkgName \o "." \o name, Str |-> str, Int |-> 0,
     Name |-> "", Desc |-> ""]

IntValue(name, n) ==
    [Kind |-> "Int", Type |-> PkgName \o "." \o name, Str |-> "", Int |-> n,
     Name |-> "", Desc |-> ""]

StructValue(name, fieldName, fieldDesc) ==
    [Kind |-> "Struct", Type |-> PkgName \o "." \o name, Str |-> "", Int |-> 0,
     Name |-> fieldName, Desc |-> fieldDesc]

\* The string a string literal denotes: the text between its quotes (the
\* literals of the model hold no escape sequence).
Unquote(text) == SubSeq(text, 2, Len(text) - 1)

HexDigits == "0123456789abcdef"

Digit(s, i) == (CHOOSE k \in 1..Len(HexDigits) : SubSeq(HexDigits, k, k) = SubSeq(s, i, i)) - 1

RECURSIVE digitsFrom(_, _, _, _)
digitsFrom(s, i, base, acc) ==
    IF i > Len(s) THEN acc ELSE digitsFrom(s, i + 1, base, acc * base + Digit(s, i))

\* The number an integer literal denotes: 0x... is hexadecimal, else decimal.
ParseInt(text) ==
    IF HasPrefix(text, "0x") THEN digitsFrom(text, 3, 16, 0) ELSE digitsFrom(text, 1, 10, 0)

\* strconv.Itoa
RECURSIVE Itoa(_)
Itoa(n) ==
    IF n < 10 THEN SubSeq(HexDigits, n + 1, n + 1)
    ELSE Itoa(n \div 10) \o SubSeq(HexDigits, (n % 10) + 1, (n % 10) + 1)

\* The value of the package's untyped constant that an identifier names.
IdentValue(name) == IF name = "dflt" THEN "d" ELSE ""

ElementValue(elt) == IF elt.ValueKind = "BasicLit" THEN Unquote(elt.Value) ELSE IdentValue(elt.Value)

\* The value a keyed struct literal gives the field key: "" when it omits it.
KeyedField(exp, key) ==
    IF \E i \in 1..Len(exp.Elts) : exp.Elts[i].Key = key
    THEN ElementValue(exp.Elts[CHOOSE i \in 1..Len(exp.Elts) : exp.Elts[i].Key = key])
    ELSE ""

(***************************************************************************)
(* The value that the declared name d holds at run time: that of its own   *)
(* initializer, converted to the declared type; the zero value without.    *)
(***************************************************************************)
RuntimeValue(d) ==
    LET i == CHOOSE k \in 1..Len(d.Names) : d.Names[k] = d.Name
        kind == Underlying(d.Type.name)
    IN IF Len(d.Values) = 0
       THEN CASE kind = "String" -> StringValue(d.Type.name, "")
              [] kind = "Int" -> IntValue(d.Type.name, 0)
              [] OTHER -> StructValue(d.Type.name, "", "")
       ELSE CASE kind = "String" -> StringValue(d.Type.name, Unquote(d.Values[i].Value))
              [] kind = "Int" -> IntValue(d.Type.name, ParseInt(d.Values[i].Value))
              [] OTHER -> StructValue(d.Type.name, KeyedField(d.Values[i], "Name"),
                                      KeyedField(d.Values[i], "Desc"))

(***************************************************************************)
(* fmt.Sprintf("%#v", v): a string in double quotes, a signed integer in   *)
(* decimal, a struct as its type and every field.                          *)
(***************************************************************************)
GoSyntax(v) ==
    CASE v.Kind = "String" -> Quoted(v.Str)
      [] v.Kind = "Int" -> Itoa(v.Int)
      [] OTHER -> v.Type \o "{Name:" \o Quoted(v.Name) \o ", Desc:" \o Quoted(v.Desc) \o "}"

\* reflect.StructTag.Lookup on a tag that holds one key:"value" pair.
TagLookup(tag, key) ==
    IF HasPrefix(tag, key \o ":\"") /\ HasSuffix(tag, "\"") /\ Len(tag) >= Len(key) + 3
    THEN [ok |-> TRUE, value |-> SubSeq(tag, Len(key) + 3, Len(tag) - 1)]
    ELSE [ok |-> FALSE, value |-> ""]

Encoded(status, val) == [status |-> status, val |-> val]

(***************************************************************************)
(* Collection.fieldValue (src/typedecl.go:265-286).  fields are the fields *)
(* of the item's struct type.                                              *)
(***************************************************************************)
fieldValue(c, fields, item) ==
    IF Len(c.Matches) = 0
    THEN Encoded("panic", "Diff: collection is empty")
    ELSE IF ~HasSuffix(c.Type, item.Type)
    THEN Encoded("ok", "")
    ELSE IF ~\E i \in 1..Len(fields) : fields[i].Names[1] = c.FieldName
    THEN Encoded("ok", "")
    ELSE LET field == fields[CHOOSE i \in 1..Len(fields) : fields[i].Names[1] = c.FieldName]
             tag == TagLookup(IF field.HasTag THEN field.Tag ELSE "", structTagName)
         IN IF ~tag.ok \/ tag.value # structTagIdentifier
            THEN Encoded("ok", "")
            ELSE Encoded("ok", Quoted(IF c.FieldName = "Name" THEN item.Name ELSE item.Desc))

(***************************************************************************)
(* Collection.valueFrom (src/typedecl.go:248-263).  kind is                *)
(* item.Type().Kind(): the kind of the slice's element type, Interface for *)
(* the elements of a []interface{}.                                        *)
(***************************************************************************)
valueFrom(c, fields, item, kind) ==
    IF kind = "Struct"
    THEN LET r == fieldValue(c, fields, item) IN
         IF r.status = "panic" THEN r
         ELSE IF r.val = "" THEN Encoded("ok", GoSyntax(item))
         ELSE r
    ELSE Encoded("ok", GoSyntax(item))

\* The map values of Diff (src/typedecl.go:219-222): a later match of the
\* same Value overwrites an earlier one.
valuesOf(matches) ==
    [v \in {matches[i].Value : i \in 1..Len(matches)} |->
        matches[CHOOSE i \in 1..Len(matches) :
                    /\ matches[i].Value = v
                    /\ \A j \in 1..Len(matches) : matches[j].Value = v => j <= i]]

\* A sequence holding the elements of a set, in some order.
Enumerations(set) ==
    LET n == Cardinality(set) IN
    {f \in [1..n -> set] : \A i, j \in 1..n : i # j => f[i] # f[j]}

\* A Diff whose Missing does not carry the Collection's Type and FieldName.
DiffResultBare(missing, extra) ==
    [status |-> "ok", Missing |-> Collection("", "", missing.Matches), Extra |-> extra]

DiffResult(missing, extra) == [status |-> "ok", Missing |-> missing, Extra |-> extra]

DiffPanic == [status |-> "panic", Missing |-> EmptyCollection, Extra |-> <<>>]

(***************************************************************************)
(* The loop of Diff over actual (src/typedecl.go:224-235) and what follows *)
(* it (:237-245): ranging over the map values yields what is left of it in *)
(* any order.                                                              *)
(***************************************************************************)
RECURSIVE actualLoop(_, _, _, _, _, _)
actualLoop(c, fields, a, i, values, extra) ==
    IF i > Len(a.Items)
    THEN {DiffResult(Collection(c.Type, c.FieldName, m), extra) :
              m \in Enumerations({values[v] : v \in DOMAIN values})}
    ELSE LET item == a.Items[i]
             r == valueFrom(c, fields, item,
                            IF a.ElemKind = "Interface" THEN "Interface" ELSE item.Kind)
         IN IF r.status = "panic"
            THEN {DiffPanic}
            ELSE IF r.val \in DOMAIN values
            THEN actualLoop(c, fields, a, i + 1,
                            [v \in DOMAIN values \ {r.val} |-> values[v]], extra)
            ELSE actualLoop(c, fields, a, i + 1, values, Append(extra, r.val))

\* A Diff that deletes nothing from the map values: every match is Missing.
DiffKeepsAll(c, fields, a) ==
    IF ~a.IsSlice
    THEN {DiffPanic}
    ELSE {DiffResult(Collection(c.Type, c.FieldName, m), <<>>) :
              m \in Enumerations({valuesOf(c.Matches)[v] : v \in DOMAIN valuesOf(c.Matches)})}

\* A Diff that reports every match as Missing, whatever the loop deleted.
DiffReportsAll(c, fields, a) ==
    IF ~a.IsSlice
    THEN {DiffPanic}
    ELSE UNION {IF d.status = "panic" THEN {d}
                ELSE {DiffResult(Collection(c.Type, c.FieldName, m), d.Extra) :
                          m \in Enumerations({valuesOf(c.Matches)[v] :
                                                  v \in DOMAIN valuesOf(c.Matches)})} :
                    d \in actualLoop(c, fields, a, 1, valuesOf(c.Matches), <<>>)}

\* A Diff that inspects the first element of actual alone.
DiffOfFirst(c, fields, a) ==
    IF ~a.IsSlice
    THEN {DiffPanic}
    ELSE actualLoop(c, fields,
                    [a EXCEPT !.Items = SubSeq(a.Items, 1, IF Len(a.Items) = 0 THEN 0 ELSE 1)],
                    1, valuesOf(c.Matches), <<>>)

\* A Diff that reports Extra in the reverse of the runtime order.
DiffExtraReversed(c, fields, a) ==
    IF ~a.IsSlice
    THEN {DiffPanic}
    ELSE {IF d.status = "panic" THEN d
          ELSE DiffResult(d.Missing,
                          [i \in 1..Len(d.Extra) |-> d.Extra[Len(d.Extra) + 1 - i]]) :
              d \in actualLoop(c, fields, a, 1, valuesOf(c.Matches), <<>>)}

\* Collection.Diff (src/typedecl.go:213-246): the set of its outcomes.
DiffOutcomes(c, fields, a) ==
    IF ~a.IsSlice
    THEN {DiffPanic}
    ELSE actualLoop(c, fields, a, 1, valuesOf(c.Matches), <<>>)

(***************************************************************************)
(* The arguments the model hands to Diff: a value that is no slice, and    *)
(* the slices of at most MaxActual elements, of one element type or of     *)
(* interface{}, drawn from the values that the package's declarations of   *)
(* the target type hold and from two values that no declaration holds.     *)
(***************************************************************************)
DeclaredValues(p, t) ==
    {RuntimeValue(d) : d \in {e \in p.Defs : /\ e.Decl = "ValueSpec"
                                             /\ e.Type.ctor = "Named"
                                             /\ HasSuffix(TypeString(e.Type), t)}}

ForeignValues == {StringValue("Flag", "m000"), StructValue("FlagStruct", "x", "")}

SeqsUpTo(set, n) == UNION {[1..k -> set] : k \in 0..n}

Actuals(p, t) ==
    LET items == SeqsUpTo(DeclaredValues(p, t) \cup ForeignValues, MaxActual)
        oneType(s) == \A i, j \in 1..Len(s) : s[i].Type = s[j].Type
    IN {[IsSlice |-> FALSE, ElemKind |-> "Concrete", Items |-> <<>>]}
       \cup {[IsSlice |-> TRUE, ElemKind |-> "Interface", Items |-> s] : s \in items}
       \cup {[IsSlice |-> TRUE, ElemKind |-> "Concrete", Items |-> s] :
                 s \in {x \in items : oneType(x)}}

\* A call All(pkg, typ).
All ==
    /\ pc = "start"
    /\ \E order \in VisitOrders(pkg.Defs) :
           \E r \in AllOutcomes(pkg, typ, order) : result' = r
    /\ pc' = "scanned"
    /\ UNCHANGED <<pkg, typ, actual, diff, rendering, failureMsg, harness, ret>>

\* A call result.collection.Diff(actual) on the Collection that All returned.
Diff ==
    /\ pc = "scanned"
    /\ result.status = "ok"
    /\ \E a \in Actuals(pkg, typ) :
           /\ actual' = a
           /\ \E d \in DiffOutcomes(result.collection, pkg.Fields, a) : diff' = d
    /\ pc' = "diffed"
    /\ UNCHANGED <<pkg, typ, result, rendering, failureMsg, harness, ret>>

Next == All \/ Diff

Spec == Init /\ [][Next]_vars

(***************************************************************************)
(* The packages of plain enumerations: every definition is a package-level *)
(* declaration of a named type that literals initialise, as in             *)
(* const A Flag = "a" or var P = FlagStruct{Name: "p"}.                    *)
(***************************************************************************)
EnumPackages ==
    {p \in Packages :
         \A d \in p.Defs :
             /\ d.Decl = "ValueSpec"
             /\ d.Scope = "package"
             /\ d.Type.ctor = "Named"
             /\ Len(d.Values) > 0
             /\ \A i \in 1..Len(d.Values) :
                    \/ d.Values[i].kind = "BasicLit"
                    \/ d.Values[i].kind = "CompositeLit" /\ d.Values[i].TypeKind = "Ident"}

InitDiff ==
    /\ pkg \in {p \in EnumPackages : DeclaresStruct(p.Defs) \/ p.Fields = DefaultShape}
    /\ typ \in TypArgs
    /\ pc = "start"
    /\ result = NotScanned
    /\ actual = NoActual
    /\ diff = NotDiffed
    /\ rendering = NoText
    /\ failureMsg = <<>>
    /\ harness = NoCalls
    /\ ret = NotReturned

\* All and Diff on the packages of plain enumerations.
SpecDiff == InitDiff /\ [][Next]_vars

\* A Zero that looks at Missing alone.
ZeroMissingOnly(d) == Len(d.Missing.Matches) = 0

\* A Zero that also asks for an empty Missing.Type and Missing.FieldName.
ZeroStrict(d) ==
    /\ Len(d.Missing.Matches) = 0 /\ Len(d.Extra) = 0
    /\ d.Missing.Type = "" /\ d.Missing.FieldName = ""

\* Diff.Zero (src/typedecl.go:180-182)
Zero(d) == Len(d.Missing.Matches) = 0 /\ Len(d.Extra) = 0

(***************************************************************************)
(* Diff.String (src/typedecl.go:184-207): msg grows by the block of the    *)
(* missing matches, then by the block of the extra values.                 *)
(***************************************************************************)
RECURSIVE missingLoop(_, _, _)
missingLoop(matches, i, msg) ==
    IF i > Len(matches) THEN msg
    ELSE missingLoop(matches, i + 1,
                     msg \o "\t" \o matches[i].Name \o " = " \o matches[i].Value \o "\n")

RECURSIVE extraLoop(_, _, _)
extraLoop(extra, i, msg) ==
    IF i > Len(extra) THEN msg
    ELSE extraLoop(extra, i + 1, msg \o "\t" \o extra[i] \o "\n")

\* A String that writes the block of the extra values first.
StringExtraFirst(d) ==
    LET e == IF Len(d.Extra) > 0
             THEN extraLoop(d.Extra, 1, "Extra values provided but not part of Matches:\n")
             ELSE ""
        m == IF Len(d.Missing.Matches) > 0
             THEN missingLoop(d.Missing.Matches, 1,
                              e \o "Matches declared but not part of actual:\n")
             ELSE e
    IN IF Len(m) > 0 THEN m ELSE "<Diff{}>"

String(d) ==
    LET m == IF Len(d.Missing.Matches) > 0
             THEN missingLoop(d.Missing.Matches, 1, "Matches declared but not part of actual:\n")
             ELSE ""
        e == IF Len(d.Extra) > 0
             THEN extraLoop(d.Extra, 1, m \o "Extra values provided but not part of Matches:\n")
             ELSE m
    IN IF Len(e) > 0 THEN e ELSE "<Diff{}>"

(***************************************************************************)
(* The Diffs handed to String: Missing.Matches of at most MaxSpecs matches *)
(* and Extra of at most MaxActual values, with and without a Type.         *)
(***************************************************************************)
StringMatches == {Match("A", Quoted("a")), Match("B", Quoted("b")), Match("Z", "")}

StringExtras == {Quoted("m000"), "1", PkgName \o ".FlagStruct{Name:\"x\", Desc:\"\"}"}

Diffs ==
    {DiffResult(Collection(ty, "", m), e) :
        ty \in {"", PkgPath \o ".Flag"},
        m \in SeqsUpTo(StringMatches, MaxSpecs),
        e \in SeqsUpTo(StringExtras, MaxActual)}

InitString ==
    /\ pkg = Package({}, DefaultShape, FALSE)
    /\ typ = "Flag"
    /\ pc = "diffed"
    /\ result = NotScanned
    /\ actual = NoActual
    /\ diff \in Diffs
    /\ rendering = NoText
    /\ failureMsg = <<>>
    /\ harness = NoCalls
    /\ ret = NotReturned

\* A call diff.String().
String_ ==
    /\ pc = "diffed"
    /\ rendering' = String(diff)
    /\ pc' = "rendered"
    /\ UNCHANGED <<pkg, typ, result, actual, diff, failureMsg, harness, ret>>

SpecString == InitString /\ [][String_]_vars

(***************************************************************************)
(* typedecltest.NoDiff (src/unnamed/part_011:18-41) and the tHelper it is  *)
(* handed (:7-11), which records the calls made on it.                     *)
(***************************************************************************)
Call(method, args) == [method |-> method, args |-> args]

Helper(h) == Append(h, Call("Helper", <<>>))
Log(h, args) == Append(h, Call("Log", args))
Fail(h) == Append(h, Call("Fail", <<>>))

NoDiffOutcome(h, r) == [harness |-> h, ret |-> r]

\* The failureMsg arguments: none, one message, two messages.
FailureMsgs == {<<>>, <<"expected">>, <<"expected", "more">>}

\* A NoDiff that logs a failed scan without failing the test.
noDiffWithoutFail(r, d, msgs) ==
    LET h == Helper(NoCalls) IN
    IF r.status = "panic" THEN NoDiffOutcome(h, "panic")
    ELSE IF r.status = "error"
    THEN NoDiffOutcome(Log(h, <<"failed to load typedecl.All: " \o r.err>>), "false")
    ELSE IF d.status = "panic" THEN NoDiffOutcome(h, "panic")
    ELSE IF Zero(d) THEN NoDiffOutcome(h, "true")
    ELSE NoDiffOutcome(Fail(Log(h, <<(IF Len(msgs) > 0 THEN msgs[1] \o "\n" ELSE "")
                                         \o String(d)>>)), "false")

\* A NoDiff that prefixes the log with the last message it is given.
noDiffLastMessage(r, d, msgs) ==
    LET h == Helper(NoCalls) IN
    IF r.status = "panic" THEN NoDiffOutcome(h, "panic")
    ELSE IF r.status = "error"
    THEN NoDiffOutcome(Fail(Log(h, <<"failed to load typedecl.All: " \o r.err>>)), "false")
    ELSE IF d.status = "panic" THEN NoDiffOutcome(h, "panic")
    ELSE IF Zero(d) THEN NoDiffOutcome(h, "true")
    ELSE NoDiffOutcome(Fail(Log(h, <<(IF Len(msgs) > 0 THEN msgs[Len(msgs)] \o "\n" ELSE "")
                                         \o String(d)>>)), "false")

\* The body of NoDiff, r being the outcome of All and d that of Diff.
noDiff(r, d, msgs) ==
    LET h == Helper(NoCalls) IN                                  \* t.Helper()
    IF r.status = "panic" THEN NoDiffOutcome(h, "panic")         \* All panics
    ELSE IF r.status = "error"                                   \* err != nil
    THEN NoDiffOutcome(Fail(Log(h, <<"failed to load typedecl.All: " \o r.err>>)), "false")
    ELSE IF d.status = "panic" THEN NoDiffOutcome(h, "panic")    \* Diff panics
    ELSE IF Zero(d) THEN NoDiffOutcome(h, "true")
    ELSE LET msg == IF Len(msgs) > 0 THEN msgs[1] \o "\n" ELSE "" IN
         NoDiffOutcome(Fail(Log(h, <<msg \o String(d)>>)), "false")

\* The outcomes of All over every order of visiting the definitions.
ScanOutcomes(p, t) == UNION {AllOutcomes(p, t, order) : order \in VisitOrders(p.Defs)}

\* The actual arguments handed to NoDiff: a value that is no slice, and the
\* slices []T that the callers of the repository pass (AllFlags, MissingFlags).
NoDiffActuals(p, t) == {a \in Actuals(p, t) : a.ElemKind = "Concrete"}

\* A call NoDiff(t, pkg, typ, actual, failureMsg...).
NoDiff ==
    /\ pc = "start"
    /\ \E r \in ScanOutcomes(pkg, typ) :
         \E a \in NoDiffActuals(pkg, typ) :
           \E d \in (IF r.status = "ok"
                     THEN DiffOutcomes(r.collection, pkg.Fields, a)
                     ELSE {NotDiffed}) :
             \E msgs \in FailureMsgs :
               LET o == noDiff(r, d, msgs) IN
               /\ result' = r
               /\ actual' = a
               /\ diff' = d
               /\ failureMsg' = msgs
               /\ harness' = o.harness
               /\ ret' = o.ret
    /\ pc' = "returned"
    /\ UNCHANGED <<pkg, typ, rendering>>

SpecNoDiff == Init /\ [][NoDiff]_vars

(***************************************************************************)
(* Vocabulary of the properties.                                           *)
(***************************************************************************)
Matches == result.collection.Matches

\* The declarations that All matched: those its filters keep.
MatchedDefs == {d \in pkg.Defs : Kept(d, typ)}

\* items holds, exactly once each, the run-time values of the declarations defs.
HoldsValuesOf(items, defs) ==
    /\ Len(items) = Cardinality(defs)
    /\ \E f \in Enumerations(defs) : \A i \in 1..Len(items) : items[i] = RuntimeValue(f[i])

\* d is initialised with a struct literal: FlagStruct{...}.
StructDecl(d) ==
    /\ Len(d.Values) = 1
    /\ d.Values[1].kind = "CompositeLit"
    /\ d.Values[1].TypeKind = "Ident"

\* The indices of the struct type's fields that carry the identifier tag.
TaggedFields == {i \in 1..Len(pkg.Fields) : pkg.Fields[i].HasTag /\ pkg.Fields[i].Tag = IdentifierTag}

FirstTagged == CHOOSE i \in TaggedFields : \A j \in TaggedFields : i <= j

\* The source text that a keyed literal supplies for the field called name.
Supplied(exp, name) ==
    {exp.Elts[i].Value : i \in {k \in 1..Len(exp.Elts) :
                                    /\ exp.Elts[k].Key = name
                                    /\ exp.Elts[k].ValueKind = "BasicLit"}}

\* The package without the definition d.
Without(d) == Package(pkg.Defs \ {d}, pkg.Fields, pkg.LoadErr)

\* d is a package-level variable whose type is a sequence of the target type.
Aggregator(d) ==
    /\ d.Scope = "package"
    /\ d.Decl = "ValueSpec"
    /\ d.Type.ctor \in {"Slice", "Array"}
    /\ HasSuffix(TypeString(Named(d.Type.name)), typ)

(***************************************************************************)
(* C1 Round trip of All and Diff: when the slice handed to Diff holds,     *)
(* exactly once each, the run-time values of the declarations that All     *)
(* matched, Diff returns and the Diff is zero.                             *)
(***************************************************************************)
C1_RoundTrip ==
    (pc = "diffed" /\ actual.IsSlice /\ actual.ElemKind = "Concrete"
        /\ HoldsValuesOf(actual.Items, MatchedDefs))
    => (diff.status = "ok" /\ Zero(diff))

(***************************************************************************)
(* C2 Missing detection: when the slice holds the run-time value of every  *)
(* matched declaration except one declaration k, and nothing else, Diff    *)
(* returns Missing.Matches = [the match of k] and an empty Extra.          *)
(***************************************************************************)
C2_MissingDetection ==
    \A k \in MatchedDefs :
        (pc = "diffed" /\ actual.IsSlice /\ actual.ElemKind = "Concrete"
            /\ HoldsValuesOf(actual.Items, MatchedDefs \ {k}))
        => /\ diff.status = "ok"
           /\ diff.Extra = <<>>
           /\ Len(diff.Missing.Matches) = 1
           /\ diff.Missing.Matches[1].Name = k.Name
           /\ \E i \in 1..Len(Matches) : Matches[i] = diff.Missing.Matches[1]

(***************************************************************************)
(* C3 Extra detection: the empty Collection diffed against a slice of one  *)
(* value v, of a basic type or of a struct type, returns Extra = [the      *)
(* encoding of v] and an empty Missing, without failing.                   *)
(***************************************************************************)
C3_ExtraDetection ==
    (pc = "diffed" /\ result.collection = EmptyCollection
        /\ actual.IsSlice /\ Len(actual.Items) = 1)
    => /\ diff.status = "ok"
       /\ diff.Extra = <<GoSyntax(actual.Items[1])>>
       /\ diff.Missing.Matches = <<>>

(***************************************************************************)
(* C4 Struct identity extraction: for a matched declaration initialised    *)
(* with a keyed struct literal whose type has exactly one tagged field,    *)
(* which the literal supplies with a basic literal, All succeeds when the  *)
(* package declares nothing else, and whenever All succeeds the Match of   *)
(* the declaration has the source text supplied for the tagged field as    *)
(* its Value and FieldName is the tagged field's name.                     *)
(***************************************************************************)
C4_StructIdentity ==
    \A d \in MatchedDefs :
        (pc # "start" /\ StructDecl(d) /\ Cardinality(TaggedFields) = 1
            /\ Supplied(d.Values[1], pkg.Fields[FirstTagged].Names[1]) # {})
        => /\ pkg.Defs = {d} => result.status = "ok"
           /\ result.status = "ok" =>
                /\ result.collection.FieldName = pkg.Fields[FirstTagged].Names[1]
                /\ \E i \in 1..Len(Matches) :
                       /\ Matches[i].Name = d.Name
                       /\ Matches[i].Value \in
                              Supplied(d.Values[1], pkg.Fields[FirstTagged].Names[1])

C6_MissingTagIsAnError ==
    (pc # "start" /\ TaggedFields = {} /\ \E d \in MatchedDefs : StructDecl(d))
    => (result.status = "error" /\ result.err = ErrNoStructTag)

(***************************************************************************)
(* C7 Local-scope exclusion: every Match that All returns is a declaration *)
(* of package scope, and every package-level value declaration of the      *)
(* target type is among the Matches.                                       *)
(***************************************************************************)
C7_LocalScopeExclusion ==
    (pc # "start" /\ result.status = "ok")
    => /\ \A i \in 1..Len(Matches) :
              \E d \in pkg.Defs : d.Scope = "package" /\ d.Name = Matches[i].Name
       /\ \A d \in pkg.Defs :
              (d.Scope = "package" /\ d.Decl = "ValueSpec" /\ d.Type.ctor = "Named"
                  /\ HasSuffix(TypeString(d.Type), typ))
              => \E i \in 1..Len(Matches) : Matches[i].Name = d.Name

(***************************************************************************)
(* C8 Aggregator exclusion: a package-level variable whose type is a slice *)
(* or an array of the target type is no Match, and All does not fail       *)
(* because of it: when All fails, it can fail on the package without the   *)
(* variable too.                                                           *)
(***************************************************************************)
C8_AggregatorExclusion ==
    \A d \in pkg.Defs :
        (pc # "start" /\ Aggregator(d))
        => /\ result.status = "ok" => \A i \in 1..Len(Matches) : Matches[i].Name # d.Name
           /\ result.status # "ok" =>
                \E o \in VisitOrders(pkg.Defs \ {d}) :
                    \E r \in AllOutcomes(Without(d), typ, o) : r.status # "ok"

(***************************************************************************)
(* C9 Determinism of All: the outcome of All is the same in whatever order *)
(* the package's definitions are visited.                                  *)
(***************************************************************************)
C9_Determinism ==
    pc = "scanned" => \A o \in VisitOrders(pkg.Defs) : AllOutcomes(pkg, typ, o) = {result}

(***************************************************************************)
(* C10 Whenever All returns without error, Matches is sorted by Name in    *)
(* ascending order: no Match is followed by one of a smaller Name.         *)
(***************************************************************************)
C10_MatchesSorted ==
    (pc # "start" /\ result.status = "ok")
    => \A i, j \in 1..Len(Matches) : i < j => ~StringLess(Matches[j].Name, Matches[i].Name)

\* C10 witness: All has returned two matches of different names.
C10_Witness ==
    /\ pc = "scanned"
    /\ result.status = "ok"
    /\ Len(Matches) >= 2
    /\ StringLess(Matches[1].Name, Matches[2].Name)

(***************************************************************************)
(* C11 Every Match of a Collection that All returns without error has a    *)
(* non-empty Value: a declaration for which no value was extracted is not  *)
(* reported as a Match with Value "".                                      *)
(***************************************************************************)
C11_ValueNeverEmpty ==
    (pc # "start" /\ result.status = "ok")
    => \A i \in 1..Len(Matches) : Matches[i].Value # ""

(***************************************************************************)
(* C12 Homogeneity: in a Collection that All returns, every Match comes    *)
(* from a matched declaration whose resolved type is Collection.Type, and  *)
(* FieldName is empty exactly when the matched declarations are not struct *)
(* literals.                                                               *)
(***************************************************************************)
C12_Homogeneity ==
    (pc # "start" /\ result.status = "ok" /\ Len(Matches) > 0)
    => /\ \A i \in 1..Len(Matches) :
              \E d \in MatchedDefs :
                  /\ d.Name = Matches[i].Name
                  /\ TypeString(d.Type) = result.collection.Type
       /\ \A d \in MatchedDefs : StructDecl(d) <=> result.collection.FieldName # ""

\* The encoding that Diff computes for the element i of actual.
EncodingOf(i) ==
    valueFrom(result.collection, pkg.Fields, actual.Items[i],
              IF actual.ElemKind = "Interface" THEN "Interface" ELSE actual.Items[i].Kind).val

Encodings == {EncodingOf(i) : i \in 1..Len(actual.Items)}

\* Diff has returned a Diff.
DiffReturned == pc = "diffed" /\ diff.status = "ok"

(***************************************************************************)
(* C13 Every Match of Missing.Matches is an element of the Collection's    *)
(* Matches, appears at most once in Missing.Matches, and its Value is not  *)
(* the encoding of any element of actual.                                  *)
(***************************************************************************)
C13_MissingIsSubset ==
    DiffReturned
    => \A i \in 1..Len(diff.Missing.Matches) :
           /\ \E j \in 1..Len(Matches) : Matches[j] = diff.Missing.Matches[i]
           /\ \A j \in 1..Len(diff.Missing.Matches) :
                  diff.Missing.Matches[j] = diff.Missing.Matches[i] => j = i
           /\ diff.Missing.Matches[i].Value \notin Encodings

\* C13 witness: Diff has deleted one match and reported another as missing.
C13_Witness ==
    /\ DiffReturned
    /\ Len(diff.Missing.Matches) = 1
    /\ Len(Matches) = 2
    /\ \E j \in 1..Len(Matches) : Matches[j].Value \in Encodings

C15_MissingCarriesType ==
    DiffReturned
    => /\ diff.Missing.Type = result.collection.Type
       /\ diff.Missing.FieldName = result.collection.FieldName

\* C15 witness: nothing is missing from a Collection of struct declarations.
C15_Witness ==
    /\ DiffReturned
    /\ diff.Missing.Matches = <<>>
    /\ Len(Matches) > 0
    /\ result.collection.Type # ""
    /\ result.collection.FieldName # ""

(***************************************************************************)
(* C16 Diff.Zero() is true exactly when Missing.Matches is empty and Extra *)
(* is empty, whatever Missing.Type and Missing.FieldName are.              *)
(***************************************************************************)
C16_ZeroIffEmpty ==
    DiffReturned => (Zero(diff) <=> (diff.Missing.Matches = <<>> /\ diff.Extra = <<>>))

\* C16 witness: a zero Diff whose Missing has a Type and a FieldName.
C16_Witness ==
    /\ DiffReturned
    /\ Zero(diff)
    /\ diff.Missing.Type # ""
    /\ diff.Missing.FieldName # ""

\* The lines of a block, one after the other.
RECURSIVE Joined(_)
Joined(lines) == IF Len(lines) = 0 THEN "" ELSE Head(lines) \o Joined(Tail(lines))

MissingBlock ==
    IF diff.Missing.Matches = <<>> THEN ""
    ELSE "Matches declared but not part of actual:\n"
         \o Joined([i \in 1..Len(diff.Missing.Matches) |->
                       "\t" \o diff.Missing.Matches[i].Name \o " = "
                            \o diff.Missing.Matches[i].Value \o "\n"])

ExtraBlock ==
    IF diff.Extra = <<>> THEN ""
    ELSE "Extra values provided but not part of Matches:\n"
         \o Joined([i \in 1..Len(diff.Extra) |-> "\t" \o diff.Extra[i] \o "\n"])

(***************************************************************************)
(* C17 Diff.String() returns "<Diff{}>" exactly when the Diff is zero;     *)
(* otherwise it returns the block of the missing matches, when there are   *)
(* any, followed by the block of the extra values, when there are any.     *)
(***************************************************************************)
C17_StringRendering ==
    pc = "rendered"
    => /\ rendering = "<Diff{}>" <=> Zero(diff)
       /\ ~Zero(diff) => rendering = MissingBlock \o ExtraBlock

\* C17 witness: String has rendered a Diff with both blocks, of two lines each.
C17_Witness ==
    /\ pc = "rendered"
    /\ Len(diff.Missing.Matches) = 2
    /\ Len(diff.Extra) = 2
    /\ rendering = MissingBlock \o ExtraBlock

\* The positions of the calls of a method in the calls made on the tHelper.
CallsOf(method) == {i \in 1..Len(harness) : harness[i].method = method}

\* NoDiff's Diff is zero: All succeeded, Diff returned, nothing differs.
ScanSucceeded == result.status = "ok"

(***************************************************************************)
(* C18 NoDiff returns true exactly when All succeeded and the Diff is      *)
(* zero.  In every call it calls Helper exactly once; when it returns true *)
(* it calls neither Log nor Fail; when it returns false it calls Fail      *)
(* exactly once.                                                           *)
(***************************************************************************)
C18_NoDiffVerdict ==
    pc = "returned"
    => /\ Cardinality(CallsOf("Helper")) = 1
       /\ ret \in {"true", "false"}
            => (ret = "true" <=> (ScanSucceeded /\ diff.status = "ok" /\ Zero(diff)))
       /\ ret = "true" => (CallsOf("Log") = {} /\ CallsOf("Fail") = {})
       /\ ret = "false" => Cardinality(CallsOf("Fail")) = 1

\* C18 witness: NoDiff has returned false because the scan failed.
C18_Witness ==
    /\ pc = "returned"
    /\ ret = "false"
    /\ result.status = "error"
    /\ Cardinality(CallsOf("Fail")) = 1

(***************************************************************************)
(* C19 When the scan succeeds and the Diff is not zero, NoDiff calls Log   *)
(* exactly once and before Fail, with the single argument Diff.String()    *)
(* prefixed by the first failureMsg and a newline when there is a          *)
(* failureMsg, and by nothing when there is none.                          *)
(***************************************************************************)
C19_LogBeforeFail ==
    (pc = "returned" /\ ScanSucceeded /\ diff.status = "ok" /\ ~Zero(diff))
    => /\ Cardinality(CallsOf("Log")) = 1
       /\ \A i \in CallsOf("Log") :
            /\ \A j \in CallsOf("Fail") : i < j
            /\ harness[i].args =
                   <<(IF failureMsg = <<>> THEN "" ELSE failureMsg[1] \o "\n") \o String(diff)>>

\* C19 witness: a non-zero Diff was logged by a NoDiff given two messages.
C19_Witness ==
    /\ pc = "returned"
    /\ ScanSucceeded /\ diff.status = "ok" /\ ~Zero(diff)
    /\ Len(failureMsg) = 2
    /\ CallsOf("Log") # {}
    /\ CallsOf("Fail") # {}

(***************************************************************************)
(* C20 NoDiff never panics: whatever the package, the type name and the    *)
(* actual argument, it returns a boolean.                                  *)
(***************************************************************************)
C20_NoDiffNeverPanics ==
    pc = "returned" => ret \in {"true", "false"}

(***************************************************************************)
(* C21 Collection.Diff panics exactly when actual is not a slice: for a    *)
(* slice of any element type and any Collection, the empty one included,   *)
(* it returns a Diff.                                                      *)
(***************************************************************************)
C21_DiffPanicsIffNotSlice ==
    pc = "diffed" => (diff.status = "panic" <=> ~actual.IsSlice)

\* d has an initializer that is neither a basic nor a composite literal.
Unsupported(d) ==
    \E i \in 1..Len(d.Values) : d.Values[i].kind \notin {"BasicLit", "CompositeLit"}

(***************************************************************************)
(* C22 Unsupported initializer: when a declaration that passes the filters *)
(* of All has an initializer that is neither a basic literal nor a         *)
(* composite literal, All panics.                                          *)
(***************************************************************************)
C22_UnsupportedIsFatal ==
    \A d \in MatchedDefs :
        (pc # "start" /\ Unsupported(d)) => result.status = "panic"

\* The struct rule holds of item: its type name is a suffix of the
\* Collection's Type, and the type has a field named FieldName which carries
\* the identifier tag.
IdentityEncoded(item) ==
    /\ HasSuffix(result.collection.Type, item.Type)
    /\ \E k \in 1..Len(pkg.Fields) :
           /\ pkg.Fields[k].Names[1] = result.collection.FieldName
           /\ pkg.Fields[k].HasTag
           /\ pkg.Fields[k].Tag = IdentifierTag

\* The literal-text form of the identity field of item.
IdentityText(item) ==
    Quoted(IF result.collection.FieldName = "Name" THEN item.Name ELSE item.Desc)

(***************************************************************************)
(* C23 Encoder struct rule: Diff encodes a struct element of actual as the *)
(* literal text of its identity field exactly when the struct rule holds   *)
(* of it, and by the full representation of the value otherwise, whatever  *)
(* the element type of the slice that carries it.                          *)
(***************************************************************************)
C23_EncoderStructRule ==
    (pc = "diffed" /\ actual.IsSlice)
    => \A i \in 1..Len(actual.Items) :
           actual.Items[i].Kind = "Struct"
           => valueFrom(result.collection, pkg.Fields, actual.Items[i],
                        IF actual.ElemKind = "Interface" THEN "Interface"
                        ELSE actual.Items[i].Kind)
              = Encoded("ok", IF IdentityEncoded(actual.Items[i])
                              THEN IdentityText(actual.Items[i])
                              ELSE GoSyntax(actual.Items[i]))

\* The position of the name of d among the names of its declaration spec.
NameIndex(d) == CHOOSE i \in 1..Len(d.Names) : d.Names[i] = d.Name

(***************************************************************************)
(* C24 Multi-name declarations: when one spec declares several names of    *)
(* the target type with as many literal initializers, the Collection that  *)
(* All returns holds exactly one Match for each of the names, and its      *)
(* Value is the text of that name's own initializer.                       *)
(***************************************************************************)
C24_MultiNameOwnValue ==
    ScanSucceeded
    => \A d \in MatchedDefs :
           (/\ Len(d.Names) > 1
            /\ Len(d.Values) = Len(d.Names)
            /\ \A k \in 1..Len(d.Values) : d.Values[k].kind = "BasicLit")
           => /\ Cardinality({i \in 1..Len(Matches) : Matches[i].Name = d.Name}) = 1
              /\ \A i \in 1..Len(Matches) :
                     Matches[i].Name = d.Name
                     => Matches[i].Value = d.Values[NameIndex(d)].Value

\* The elements of the sequence s, as a set.
Range(s) == {s[i] : i \in 1..Len(s)}

\* The sequence s without its element at position j.
RemoveAt(s, j) == [i \in 1..(Len(s) - 1) |-> IF i < j THEN s[i] ELSE s[i + 1]]

\* The Collection that All returned, with the match at position j filtered out.
Filtered(j) ==
    Collection(result.collection.Type, result.collection.FieldName, RemoveAt(Matches, j))

\* No two matches of the Collection share a Value.
DistinctValues == \A i, j \in 1..Len(Matches) : Matches[i].Value = Matches[j].Value => i = j

(***************************************************************************)
(* C25 Filtering before diffing: when the Values of the Collection are     *)
(* pairwise distinct and no element of actual encodes to the Value of the  *)
(* match m, the Diff of the Collection without m against actual has the    *)
(* Extra of the Diff of the whole Collection and its Missing without m.    *)
(***************************************************************************)
C25_FilteringBeforeDiffing ==
    (DiffReturned /\ DistinctValues)
    => \A j \in 1..Len(Matches) :
           Matches[j].Value \notin Encodings
           => \A d \in DiffOutcomes(Filtered(j), pkg.Fields, actual) :
                  /\ d.status = "ok"
                  /\ d.Extra = diff.Extra
                  /\ Range(d.Missing.Matches) = Range(diff.Missing.Matches) \ {Matches[j]}

\* The Values of the matches of the Collection that All returned.
Values == {Matches[i].Value : i \in 1..Len(Matches)}

\* The element i of actual is the first one to encode to a declared Value.
FirstOccurrence(i) ==
    /\ EncodingOf(i) \in Values
    /\ \A k \in 1..(i - 1) : EncodingOf(k) # EncodingOf(i)

\* The encodings of those of the first i elements of actual that are not
\* the first occurrence of a declared Value, in runtime order.
RECURSIVE NotConsumed(_)
NotConsumed(i) ==
    IF i = 0 THEN <<>>
    ELSE IF FirstOccurrence(i) THEN NotConsumed(i - 1)
    ELSE Append(NotConsumed(i - 1), EncodingOf(i))

(***************************************************************************)
(* C26 Extra is exactly the subsequence, in runtime order, of the          *)
(* encodings of the elements of actual that are not the first occurrence   *)
(* of a Value of the Collection: an undeclared encoding is appended every  *)
(* time it occurs, a declared one every time but the first.                *)
(***************************************************************************)
C26_ExtraIsUnconsumed ==
    DiffReturned => diff.Extra = NotConsumed(Len(actual.Items))

\* C26 witness: Diff has returned for a slice in which a declared Value
\* occurs twice, or follows an undeclared one, and reported one of the two.
C26_Witness ==
    /\ DiffReturned
    /\ Len(actual.Items) = 2
    /\ EncodingOf(2) \in Values
    /\ \/ EncodingOf(1) = EncodingOf(2) /\ diff.Extra = <<EncodingOf(2)>>
       \/ EncodingOf(1) \notin Values /\ diff.Extra = <<EncodingOf(1)>>

\* No two elements of actual have the same encoding.
DistinctEncodings ==
    \A i, j \in 1..Len(actual.Items) : EncodingOf(i) = EncodingOf(j) => i = j

(***************************************************************************)
(* C27 The Diff of a Collection against a slice is Zero if and only if the *)
(* encodings of the elements of the slice are pairwise distinct and the    *)
(* set of those encodings is the set of Values of the Collection's         *)
(* Matches.                                                                *)
(***************************************************************************)
C27_ZeroIffSameValues ==
    DiffReturned => (Zero(diff) <=> (DistinctEncodings /\ Encodings = Values))

\* C27 witness: Diff has returned a Zero Diff for a slice of two elements
\* and a Collection of two Values.
C27_Witness ==
    /\ DiffReturned
    /\ Zero(diff)
    /\ Len(actual.Items) = 2
    /\ Cardinality(Values) = 2

(***************************************************************************)
(* C28 No string of the Extra of a Diff is the Value of a match of its     *)
(* Missing: a value is never reported both as missing and as extra.        *)
(***************************************************************************)
C28_MissingExtraDisjoint ==
    DiffReturned
    => \A i \in 1..Len(diff.Extra) :
           \A j \in 1..Len(diff.Missing.Matches) :
               diff.Extra[i] # diff.Missing.Matches[j].Value

\* C28 witness: Diff has reported a match as missing and a repeated
\* declared Value as extra.
C28_Witness ==
    /\ DiffReturned
    /\ Len(diff.Missing.Matches) > 0
    /\ Len(diff.Extra) > 0
    /\ diff.Extra[1] \in Values

\* The number of positions of the sequence s that hold v.
Count(s, v) == Cardinality({i \in 1..Len(s) : s[i] = v})

\* The slices that hold the elements of actual in another order.
Reorderings ==
    {[actual EXCEPT !.Items = [i \in 1..Len(actual.Items) |-> actual.Items[p[i]]]] :
         p \in Permutations(1..Len(actual.Items))}

(***************************************************************************)
(* C29 Order independence of Diff: the Diffs of a Collection against two   *)
(* slices that are permutations of each other have the same set of Missing *)
(* matches and the same multiset of Extra values, hence the same Zero.     *)
(***************************************************************************)
C29_OrderIndependence ==
    DiffReturned
    => \A a \in Reorderings :
           \A d \in DiffOutcomes(result.collection, pkg.Fields, a) :
               /\ d.status = "ok"
               /\ Range(d.Missing.Matches) = Range(diff.Missing.Matches)
               /\ \A v \in Range(d.Extra) \cup Range(diff.Extra) :
                      Count(d.Extra, v) = Count(diff.Extra, v)
               /\ Zero(d) = Zero(diff)

\* C29 witness: Diff has returned for a slice whose two elements differ,
\* one of them declared and the other not, so that reordering changes the
\* slice and both Missing and Extra are at stake.
C29_Witness ==
    /\ DiffReturned
    /\ Len(actual.Items) = 2
    /\ actual.Items[1] # actual.Items[2]
    /\ EncodingOf(1) \in Values
    /\ EncodingOf(2) \notin Values
    /\ Len(diff.Missing.Matches) > 0

====
